---- MODULE Spec2Model ----
(***************************************************************************)
(* Model of the course platform's two stateful components:                 *)
(*   - the student dashboard  (src/src/pages/Dash.tsx, StudentMetrics)     *)
(*     together with the metrics it reads from useStudentMetrics;          *)
(*   - the lesson editing dialog (src/unnamed/part_000, EditLessonModal).  *)
(* Each component has its own specification (SpecDash, SpecModal) over the *)
(* variables below; the other component's variables stay at their initial  *)
(* values.                                                                 *)
(***************************************************************************)
EXTENDS Integers, Sequences, FiniteSets, TLC

VARIABLES
    \* ---- the external store read by the metrics hook (read-only here)
    enrollments,        \* set of [course_id, completed]
    sessions,           \* set of [id, day]; day = calendar days before today
    events,             \* set of [id, type, date]
    feedLimit,          \* cap on the activity feed
    weeklyStudiedHours, \* hours studied in the weekly window
    weeklyGoalHours,    \* weekly goal
    \* ---- the dashboard component
    isLoading,          \* useStudentMetrics().isLoading
    metrics,            \* useStudentMetrics().data
    view,               \* what StudentMetrics returned from its last render
    \* ---- the lesson dialog component
    lesson,             \* prop: the lesson being edited
    open,               \* prop: dialog visibility
    form,               \* react-hook-form field values
    defaults,           \* react-hook-form defaultValues
    materialFiles,      \* useState<File[]>: newly selected files
    uploadingMaterials, \* useState(false)
    pc,                 \* position of the running onSubmit, or "idle"
    closure,            \* lesson, materialFiles and data captured by the running onSubmit
    newMaterials,       \* onSubmit's local array
    uploads,            \* history: uploadFile calls issued by the running onSubmit
    updateCalls,        \* history: updateLesson calls issued by the running onSubmit
    nUploads,           \* history: number of uploadFile calls of the current/last save
    nCalls,             \* history: number of updateLesson calls of the current/last save
    outcome,            \* history: how the last finished save ended
    removeClicks,       \* history: existing materials whose remove button was clicked
    lessonChange        \* history: "none", or what the lesson change that just ran found:
                        \* "empty" (no files selected) or "dropped" (it discarded some)

dashVars  == <<enrollments, sessions, events, feedLimit, weeklyStudiedHours,
               weeklyGoalHours, isLoading, metrics, view>>
modalVars == <<lesson, open, form, defaults, materialFiles, uploadingMaterials,
               pc, closure, newMaterials, uploads, updateCalls, nUploads, nCalls,
               outcome,               removeClicks, lessonChange>>
vars      == <<dashVars, modalVars>>

----------------------------------------------------------------------------
(* Bounds of the model *)
MaxCourses == 3
MaxHours == 3
MaxSessions == 3
MaxDaysBack == 3
MaxEvents == 3
MaxTypedEvents == 2
MaxFiles == 2

Min(a, b) == IF a < b THEN a ELSE b

----------------------------------------------------------------------------
(* JavaScript numbers, as far as the dashboard uses them: exact rationals   *)
(* n/d in lowest terms with d > 0, plus the non-finite results of dividing  *)
(* by zero.                                                                 *)

RECURSIVE GCD(_, _)
GCD(a, b) == IF b = 0 THEN a ELSE GCD(b, a % b)

Abs(a) == IF a < 0 THEN -a ELSE a

Num(n, d) ==
    LET g == GCD(Abs(n), Abs(d))
        s == IF d < 0 THEN -1 ELSE 1
    IN  [kind |-> "num", n |-> (s * n) \div g, d |-> (s * d) \div g]

NaN == [kind |-> "NaN", n |-> 0, d |-> 0]
Infinity(sign) == [kind |-> "Infinity", n |-> sign, d |-> 0]
Zero == [kind |-> "num", n |-> 0, d |-> 1]

\* a / b on two integers
JsDiv(a, b) ==
    IF b = 0
    THEN IF a = 0 THEN NaN ELSE Infinity(IF a < 0 THEN -1 ELSE 1)
    ELSE Num(a, b)

\* x * k for an integer k > 0
JsMul(x, k) == IF x.kind = "num" THEN Num(x.n * k, x.d) ELSE x

----------------------------------------------------------------------------
(* useStudentMetrics: the metrics engine the dashboard reads.              *)

Courses == 1..MaxCourses
SessionIds == 1..MaxSessions
Days == (-1)..MaxDaysBack          \* -1 is tomorrow, 0 today, 1 yesterday
EventIds == 1..MaxEvents
Dates == 1..MaxEvents
KnownTypes == {"course_enrolled", "lesson_completed", "course_completed",
               "certificate_earned"}
ActivityTypes == KnownTypes \cup {"other", "quiz_passed", ""}
OrderTypes == {"lesson_completed", "quiz_passed"}

NoMetrics == [undefined |-> TRUE]

\* Enrollment Aggregator
enrolledCount(E) == Cardinality(E)
completedCount(E) == Cardinality({e \in E : e.completed})

\* Study-Time & Streak Calculator: the active days, and the walk backward
activeDays(S) == {s.day : s \in S}

RECURSIVE walkBack(_, _)
walkBack(A, d) == IF d \in A THEN 1 + walkBack(A, d + 1) ELSE 0

computeStreak(S) ==
    LET A == activeDays(S)
    IN  IF 0 \in A THEN walkBack(A, 0)
        ELSE IF 1 \in A THEN walkBack(A, 1)
        ELSE 0

\* Activity Feed Builder: newest first, ties by id descending, then the cap
Newer(a, b) == a.date > b.date \/ (a.date = b.date /\ a.id > b.id)

RECURSIVE sortNewestFirst(_)
sortNewestFirst(S) ==
    IF S = {} THEN <<>>
    ELSE LET m == CHOOSE x \in S : \A y \in S \ {x} : Newer(x, y)
         IN  <<m>> \o sortNewestFirst(S \ {m})

truncate(s, limit) == SubSeq(s, 1, Min(Len(s), limit))

buildFeed(E, limit) == truncate(sortNewestFirst(E), limit)

computeStudentMetrics ==
    [enrolledCoursesCount  |-> enrolledCount(enrollments),
     completedCoursesCount |-> completedCount(enrollments),
     weeklyStudiedHours    |-> weeklyStudiedHours,
     weeklyGoalHours       |-> weeklyGoalHours,
     currentStreak         |-> computeStreak(sessions),
     recentActivity        |-> buildFeed(events, feedLimit)]

----------------------------------------------------------------------------
(* StudentMetrics: the dashboard's render function.                        *)

\* the rate without its guard on enrolledCoursesCount
completionRateUnguarded(m) ==
    JsMul(JsDiv(m.completedCoursesCount, m.enrolledCoursesCount), 100)

\* the rate with the operands of the division swapped
completionRateSwapped(m) ==
    IF m.enrolledCoursesCount > 0
    THEN JsMul(JsDiv(m.enrolledCoursesCount, m.completedCoursesCount), 100)
    ELSE Zero

completionRate(m) ==
    IF m.enrolledCoursesCount > 0
    THEN JsMul(JsDiv(m.completedCoursesCount, m.enrolledCoursesCount), 100)
    ELSE Zero

\* the progress guarded by "goal is not zero" instead of "goal is positive"
weeklyProgressNonZeroGoal(m) ==
    IF m.weeklyGoalHours # 0
    THEN JsMul(JsDiv(m.weeklyStudiedHours, m.weeklyGoalHours), 100)
    ELSE Zero

weeklyProgress(m) ==
    IF m.weeklyGoalHours > 0
    THEN JsMul(JsDiv(m.weeklyStudiedHours, m.weeklyGoalHours), 100)
    ELSE Zero

FallbackIcon == "Activity"
FallbackColor == "bg-muted text-muted-foreground"

getActivityIcon(type) ==
    CASE type = "course_enrolled"    -> "BookOpen"
      [] type = "lesson_completed"   -> "Award"
      [] type = "course_completed"   -> "Trophy"
      [] type = "certificate_earned" -> "Award"
      [] OTHER                       -> FallbackIcon

\* the colour switch whose default arm repeats the first case
getActivityColorNoFallback(type) ==
    CASE type = "course_enrolled"    -> "bg-primary/10 text-primary"
      [] type = "lesson_completed"   -> "bg-success/10 text-success"
      [] type = "course_completed"   -> "bg-warning/10 text-warning"
      [] type = "certificate_earned" -> "bg-purple-100 text-purple-600"
      [] OTHER                       -> "bg-primary/10 text-primary"

getActivityColor(type) ==
    CASE type = "course_enrolled"    -> "bg-primary/10 text-primary"
      [] type = "lesson_completed"   -> "bg-success/10 text-success"
      [] type = "course_completed"   -> "bg-warning/10 text-warning"
      [] type = "certificate_earned" -> "bg-purple-100 text-purple-600"
      [] OTHER                       -> FallbackColor

activityRow(activity) ==
    [key   |-> activity.id,
     color |-> getActivityColor(activity.type),
     icon  |-> getActivityIcon(activity.type)]

\* the rows in the reverse of the array's order
renderActivityReversed(recentActivity) ==
    [i \in 1..Len(recentActivity) |->
        activityRow(recentActivity[Len(recentActivity) + 1 - i])]

\* the rows of all activities but the first
renderActivitySkippingFirst(recentActivity) ==
    [i \in 1..(Len(recentActivity) - 1) |-> activityRow(recentActivity[i + 1])]

\* metrics.recentActivity.map(...): one row per activity, in the array's order
renderActivity(recentActivity) ==
    [i \in 1..Len(recentActivity) |-> activityRow(recentActivity[i])]

\* the dashboard whose streak card shows the first card's number
renderDashboardStreakCardCopied(m) ==
    [kind                 |-> "dashboard",
     enrolledCoursesCount |-> m.enrolledCoursesCount,
     currentStreak        |-> m.enrolledCoursesCount,
     completionRate       |-> completionRate(m),
     weeklyProgress       |-> weeklyProgress(m),
     feed                 |-> renderActivity(m.recentActivity),
     emptyMessage         |-> Len(m.recentActivity) = 0]

\* the cards this model follows (Cursos Inscritos, Sequencia Atual), the feed,
\* and the render's locals
renderDashboard(m) ==
    [kind                 |-> "dashboard",
     enrolledCoursesCount |-> m.enrolledCoursesCount,
     currentStreak        |-> m.currentStreak,
     completionRate       |-> completionRate(m),
     weeklyProgress       |-> weeklyProgress(m),
     feed                 |-> renderActivity(m.recentActivity),
     emptyMessage         |-> Len(m.recentActivity) = 0]

ZeroMetrics ==
    [enrolledCoursesCount |-> 0, completedCoursesCount |-> 0, weeklyStudiedHours |-> 0,
     weeklyGoalHours |-> 0, currentStreak |-> 0, recentActivity |-> <<>>]

\* the render without its !metrics gate, reading zeros when there is no snapshot
StudentMetricsZerosOnFailure(loading, m) ==
    IF loading THEN [kind |-> "loading"]
    ELSE renderDashboard(IF m = NoMetrics THEN ZeroMetrics ELSE m)

StudentMetrics(loading, m) ==
    IF loading THEN [kind |-> "loading"]
    ELSE IF m = NoMetrics THEN [kind |-> "error", message |-> "Erro ao carregar metricas"]
    ELSE renderDashboard(m)

----------------------------------------------------------------------------
(* The dashboard as a state machine.  The store is read-only to the        *)
(* component; a run starts from any store within the bounds, varying one   *)
(* slice of it (enrollments, weekly hours, sessions, events) at a time     *)
(* since the sub-computations read disjoint slices.                        *)

EnrollmentSets ==
    UNION {{ {[course_id |-> c, completed |-> f[c]] : c \in C} : f \in [C -> BOOLEAN] }
           : C \in SUBSET Courses}

SessionSets ==
    UNION {{ {[id |-> i, day |-> f[i]] : i \in I} : f \in [I -> Days] }
           : I \in SUBSET SessionIds}

EventSets(ids, types, dates) ==
    UNION {{ {[id |-> i, type |-> f[i].type, date |-> f[i].date] : i \in I}
             : f \in [I -> [type : types, date : dates]] }
           : I \in SUBSET ids}

StoreIs(E, S, V, limit, studied, goal) ==
    /\ enrollments = E
    /\ sessions = S
    /\ events = V
    /\ feedLimit = limit
    /\ weeklyStudiedHours = studied
    /\ weeklyGoalHours = goal

InitStore ==
    \/ \E E \in EnrollmentSets : StoreIs(E, {}, {}, MaxEvents, 0, 0)
    \/ \E studied \in 0..MaxHours, goal \in (-1)..MaxHours :
          StoreIs({}, {}, {}, MaxEvents, studied, goal)
    \/ \E S \in SessionSets : StoreIs({}, S, {}, MaxEvents, 0, 0)
    \/ \E V \in EventSets(EventIds, OrderTypes, Dates), limit \in 0..MaxEvents :
          StoreIs({}, {}, V, limit, 0, 0)
    \/ \E V \in EventSets(1..MaxTypedEvents, ActivityTypes, {1}) :
          StoreIs({}, {}, V, MaxEvents, 0, 0)

InitDashboard ==
    /\ InitStore
    /\ isLoading = TRUE
    /\ metrics = NoMetrics
    /\ view = StudentMetrics(TRUE, NoMetrics)

storeVars == <<enrollments, sessions, events, feedLimit, weeklyStudiedHours,
               weeklyGoalHours>>

\* the query resolves: the hook returns the computed snapshot
FetchSucceed ==
    /\ isLoading
    /\ isLoading' = FALSE
    /\ metrics' = computeStudentMetrics
    /\ view' = StudentMetrics(isLoading', metrics')
    /\ UNCHANGED <<storeVars, modalVars>>

\* the query fails or times out: loading ends with no snapshot
FetchFail ==
    /\ isLoading
    /\ isLoading' = FALSE
    /\ metrics' = NoMetrics
    /\ view' = StudentMetrics(isLoading', metrics')
    /\ UNCHANGED <<storeVars, modalVars>>

\* the page is mounted again: the hook starts over
Remount ==
    /\ ~isLoading
    /\ isLoading' = TRUE
    /\ metrics' = NoMetrics
    /\ view' = StudentMetrics(isLoading', metrics')
    /\ UNCHANGED <<storeVars, modalVars>>

NextDash == FetchSucceed \/ FetchFail \/ Remount

----------------------------------------------------------------------------
(* EditLessonModal: data.                                                  *)
(* A nullable field is <<>> (null/undefined) or <<v>>.                     *)

Material(name) == [name |-> name, url |-> <<0, 0, name>>, type |-> "application/pdf", size |-> 1]

Lessons ==
    { [id |-> 1, title |-> "Intro", description |-> <<"about">>, order_index |-> 0,
       video_url |-> <<"https://v/1">>, video_type |-> <<"upload">>,
       duration_minutes |-> <<10>>,
       materials |-> << <<Material("m1.pdf"), Material("m2.pdf")>> >>],
      [id |-> 1, title |-> "Intro (rev)", description |-> <<"about">>, order_index |-> 0,
       video_url |-> <<"https://v/1">>, video_type |-> <<"upload">>,
       duration_minutes |-> <<10>>,
       materials |-> << <<Material("m1.pdf")>> >>],
      [id |-> 2, title |-> "Basics", description |-> <<>>, order_index |-> 1,
       video_url |-> <<>>, video_type |-> <<>>,
       duration_minutes |-> <<>>,
       materials |-> <<>>] }

FileCatalog ==
    { [name |-> "a.pdf", type |-> "application/pdf", size |-> 3],
      [name |-> "b.zip", type |-> "application/zip", size |-> 5] }

\* what one change of the file input can carry
FileLists == UNION {[1..k -> FileCatalog] : k \in 1..MaxFiles}

Titles == {"Edited"}

\* x || fallback, for a nullable string
OrElse(x, fallback) == IF x = <<>> \/ x = <<"">> THEN fallback ELSE x[1]

\* the values passed to useForm's defaultValues and to reset(...)
formValues(l) ==
    [title            |-> l.title,
     description      |-> OrElse(l.description, ""),
     order_index      |-> l.order_index,
     video_url        |-> OrElse(l.video_url, ""),
     video_type       |-> OrElse(l.video_type, "youtube"),
     duration_minutes |-> l.duration_minutes]

\* lessonSchema
lessonSchema(data) ==
    /\ Len(data.title) >= 1
    /\ data.order_index >= 0
    /\ data.video_type \in {"youtube", "upload"}
    /\ IF data.duration_minutes = <<>> THEN TRUE ELSE data.duration_minutes[1] >= 0

\* `${lesson.id}/${Date.now()}-${file.name}`
fileName(l, now, file) == <<l.id, now, file.name>>

\* the storage's public URL of an uploaded path
publicUrl(path) == path

uploadCall(l, now, item) ==
    [file |-> item.file, pickedFor |-> item.pickedFor, bucket |-> "course-materials",
     path |-> fileName(l, now, item.file)]

materialOf(file, url) ==
    [name |-> file.name, url |-> url, type |-> file.type, size |-> file.size]

\* lesson.materials || []
existingMaterials(l) == IF l.materials = <<>> THEN <<>> ELSE l.materials[1]

\* the merge that sends only the new materials
allMaterialsNewOnly(l, new) == new

allMaterials(l, new) == existingMaterials(l) \o new

updateCall(l, data, new, uploadsDone) ==
    [id               |-> l.id,
     title            |-> data.title,
     description      |-> data.description,
     order_index      |-> data.order_index,
     video_url        |-> data.video_url,
     video_type       |-> data.video_type,
     duration_minutes |-> data.duration_minutes,
     materials        |-> allMaterials(l, new),
     uploadsDone      |-> uploadsDone]

\* the effect without its setMaterialFiles([])
lessonEffectKeepingFiles(l, files) ==
    [form |-> formValues(l), defaults |-> formValues(l), materialFiles |-> files]

\* the effect on [lesson.id, reset]: what it leaves in the form and the file list
lessonEffect(l, files) ==
    [form |-> formValues(l), defaults |-> formValues(l), materialFiles |-> <<>>]

NoClosure == [lesson |-> [id |-> 0], materialFiles |-> <<>>, data |-> [title |-> ""]]

InitDialog(l) ==
    /\ lesson = l
    /\ open = FALSE
    /\ form = formValues(l)
    /\ defaults = formValues(l)
    /\ materialFiles = <<>>
    /\ uploadingMaterials = FALSE
    /\ pc = "idle"
    /\ closure = NoClosure
    /\ newMaterials = <<>>
    /\ uploads = <<>>
    /\ updateCalls = <<>>
    /\ nUploads = 0
    /\ nCalls = 0
    /\ outcome = "none"
    /\ removeClicks = {}
    /\ lessonChange = "none"

----------------------------------------------------------------------------
(* EditLessonModal: handlers.                                              *)

saveVars == <<pc, closure, newMaterials, uploads, updateCalls, nUploads, nCalls, outcome>>

\* the parent shows the dialog
OpenDialog ==
    /\ ~open
    /\ open' = TRUE
    /\ UNCHANGED <<lesson, form, defaults, materialFiles, uploadingMaterials,
                   saveVars, removeClicks>>
    /\ lessonChange' = "none"
    /\ UNCHANGED dashVars

\* Cancelar, Esc or a click outside: onOpenChange(false)
Cancel ==
    /\ open
    /\ open' = FALSE
    /\ UNCHANGED <<lesson, form, defaults, materialFiles, uploadingMaterials,
                   saveVars, removeClicks>>
    /\ lessonChange' = "none"
    /\ UNCHANGED dashVars

\* the parent passes a lesson with another id: the effect on lesson.id runs
ChangeLesson(l) ==
    /\ l.id # lesson.id
    /\ lesson' = l
    /\ LET e == lessonEffect(l, materialFiles)
       IN  /\ form' = e.form
           /\ defaults' = e.defaults
           /\ materialFiles' = e.materialFiles
    /\ removeClicks' = {}
    /\ lessonChange' = IF materialFiles # <<>> THEN "dropped" ELSE "empty"
    /\ UNCHANGED <<open, uploadingMaterials, saveVars>>
    /\ UNCHANGED dashVars

\* the parent passes a newer copy of the same lesson: no effect runs
RefreshLesson(l) ==
    /\ l.id = lesson.id
    /\ l # lesson
    /\ lesson' = l
    /\ removeClicks' = {}
    /\ UNCHANGED <<open, form, defaults, materialFiles, uploadingMaterials,
                   saveVars>>
    /\ lessonChange' = "none"
    /\ UNCHANGED dashVars

\* typing in the title input
EditTitle(t) ==
    /\ open
    /\ form.title # t
    /\ form' = [form EXCEPT !.title = t]
    /\ UNCHANGED <<lesson, open, defaults, materialFiles, uploadingMaterials,
                   saveVars, removeClicks>>
    /\ lessonChange' = "none"
    /\ UNCHANGED dashVars

\* the file input changes: the files picked are appended; pickedFor records, for
\* the properties only, the lesson edited when the file was picked
handleMaterialFilesChange(files) ==
    /\ open
    /\ Len(materialFiles) + Len(files) <= MaxFiles
    /\ materialFiles' = materialFiles
                        \o [i \in 1..Len(files) |-> [file |-> files[i], pickedFor |-> lesson.id]]
    /\ UNCHANGED <<lesson, open, form, defaults, uploadingMaterials,
                   saveVars, removeClicks>>
    /\ lessonChange' = "none"
    /\ UNCHANGED dashVars

removeMaterialFile(index) ==
    /\ open
    /\ index \in 1..Len(materialFiles)
    /\ materialFiles' = SubSeq(materialFiles, 1, index - 1)
                        \o SubSeq(materialFiles, index + 1, Len(materialFiles))
    /\ UNCHANGED <<lesson, open, form, defaults, uploadingMaterials,
                   saveVars, removeClicks>>
    /\ lessonChange' = "none"
    /\ UNCHANGED dashVars

\* the X beside an existing material: computes a filtered copy and drops it
removeExistingMaterial(index) ==
    /\ open
    /\ index \in 1..Len(existingMaterials(lesson))
    /\ index \notin removeClicks
    /\ removeClicks' = removeClicks \cup {index}
    /\ UNCHANGED <<lesson, open, form, defaults, materialFiles, uploadingMaterials,
                   saveVars>>
    /\ lessonChange' = "none"
    /\ UNCHANGED dashVars

\* Date.now(): a logical clock that ticks with every upload of a save
Now(uploadsSoFar) == uploadsSoFar + 1

\* onSubmit from its last upload (or from its start) to the updateLesson call
issueNext(cl, new, ups) ==
    IF Len(new) < Len(cl.materialFiles)
    THEN /\ uploads' = Append(ups, uploadCall(cl.lesson, Now(Len(ups)), cl.materialFiles[Len(new) + 1]))
         /\ updateCalls' = <<>>
         /\ nUploads' = Len(ups) + 1
         /\ nCalls' = 0
         /\ pc' = "uploading"
    ELSE /\ uploads' = ups
         /\ updateCalls' = <<updateCall(cl.lesson, cl.data, new, Len(ups))>>
         /\ nUploads' = Len(ups)
         /\ nCalls' = 1
         /\ pc' = "updating"

\* the submit button's disabled={isSubmitting || uploadingMaterials}
submitDisabled == pc # "idle" \/ uploadingMaterials

\* handleSubmit(onSubmit) with valid values: onSubmit runs to its first await
Submit ==
    /\ open
    /\ ~submitDisabled
    /\ lessonSchema(form)
    /\ uploadingMaterials' = TRUE
    /\ closure' = [lesson |-> lesson, materialFiles |-> materialFiles, data |-> form]
    /\ newMaterials' = <<>>
    /\ outcome' = "none"
    /\ issueNext(closure', <<>>, <<>>)
    /\ UNCHANGED <<lesson, open, form, defaults, materialFiles, removeClicks>>
    /\ lessonChange' = "none"
    /\ UNCHANGED dashVars

\* uploadFile.mutateAsync resolves
UploadOk ==
    /\ pc = "uploading"
    /\ LET up == uploads[Len(uploads)]
       IN  newMaterials' = Append(newMaterials, materialOf(up.file, publicUrl(up.path)))
    /\ issueNext(closure, newMaterials', uploads)
    /\ UNCHANGED <<lesson, open, form, defaults, materialFiles, uploadingMaterials,
                   closure, outcome, removeClicks>>
    /\ lessonChange' = "none"
    /\ UNCHANGED dashVars

\* the rejected upload handled by a catch with no finally after it
UploadFailWithoutFinally ==
    /\ pc = "uploading"
    /\ pc' = "idle"
    /\ outcome' = "uploadFailed"
    /\ closure' = NoClosure
    /\ newMaterials' = <<>>
    /\ uploads' = <<>>
    /\ updateCalls' = <<>>
    /\ UNCHANGED <<lesson, open, form, defaults, materialFiles, uploadingMaterials,
                   nUploads, nCalls, removeClicks>>
    /\ lessonChange' = "none"
    /\ UNCHANGED dashVars

\* uploadFile.mutateAsync rejects: catch, then finally
UploadFail ==
    /\ pc = "uploading"
    /\ pc' = "idle"
    /\ outcome' = "uploadFailed"
    /\ uploadingMaterials' = FALSE
    /\ closure' = NoClosure
    /\ newMaterials' = <<>>
    /\ uploads' = <<>>
    /\ updateCalls' = <<>>
    /\ UNCHANGED <<lesson, open, form, defaults, materialFiles, 
                   nUploads, nCalls, removeClicks>>
    /\ lessonChange' = "none"
    /\ UNCHANGED dashVars

\* updateLesson.mutateAsync resolves: close, reset(), clear the files, then finally
UpdateOk ==
    /\ pc = "updating"
    /\ pc' = "idle"
    /\ outcome' = "ok"
    /\ open' = FALSE
    /\ form' = defaults
    /\ materialFiles' = <<>>
    /\ uploadingMaterials' = FALSE
    /\ closure' = NoClosure
    /\ newMaterials' = <<>>
    /\ uploads' = <<>>
    /\ updateCalls' = <<>>
    /\ UNCHANGED <<lesson, defaults,  nUploads, nCalls,
                   removeClicks>>
    /\ lessonChange' = "none"
    /\ UNCHANGED dashVars

\* updateLesson.mutateAsync rejects: catch, then finally
UpdateFail ==
    /\ pc = "updating"
    /\ pc' = "idle"
    /\ outcome' = "updateFailed"
    /\ uploadingMaterials' = FALSE
    /\ closure' = NoClosure
    /\ newMaterials' = <<>>
    /\ uploads' = <<>>
    /\ updateCalls' = <<>>
    /\ UNCHANGED <<lesson, open, form, defaults, materialFiles, 
                   nUploads, nCalls, removeClicks>>
    /\ lessonChange' = "none"
    /\ UNCHANGED dashVars

NextDialog ==
    \/ OpenDialog
    \/ Cancel
    \/ \E l \in Lessons : ChangeLesson(l)
    \/ \E l \in Lessons : RefreshLesson(l)
    \/ \E t \in Titles : EditTitle(t)
    \/ \E files \in FileLists : handleMaterialFilesChange(files)
    \/ \E i \in 1..MaxFiles : removeMaterialFile(i)
    \/ \E i \in 1..Len(existingMaterials(lesson)) : removeExistingMaterial(i)
    \/ Submit
    \/ UploadOk
    \/ UploadFail
    \/ UpdateOk
    \/ UpdateFail

----------------------------------------------------------------------------
(* Specifications *)

InitDash == InitDashboard /\ InitDialog(CHOOSE l \in Lessons : l.id = 2)

SpecDash == InitDash /\ [][NextDash]_vars

InitModal ==
    /\ StoreIs({}, {}, {}, MaxEvents, 0, 0)
    /\ isLoading = TRUE
    /\ metrics = NoMetrics
    /\ view = StudentMetrics(TRUE, NoMetrics)
    /\ \E l \in Lessons : InitDialog(l)

SpecModal == InitModal /\ [][NextDialog]_vars

----------------------------------------------------------------------------
(* Properties of the dashboard (checked under SpecDash)                    *)

Shown == view.kind = "dashboard"

\* the event of the store that a row of the shown feed stands for
EventOfRow(row) == CHOOSE e \in events : e.id = row.key

NewestFirst(rows) ==
    \A i, j \in 1..Len(rows) : i < j => Newer(EventOfRow(rows[i]), EventOfRow(rows[j]))

\* C1: for every snapshot shown, completionRate is a finite number, equal to
\* completedCoursesCount / enrolledCoursesCount * 100 when enrolledCoursesCount > 0
\* and exactly 0 otherwise; the division by zero never happens.
C1_CompletionRate ==
    Shown =>
        LET r == view.completionRate
            c == metrics.completedCoursesCount
            e == metrics.enrolledCoursesCount
        IN  /\ r.kind = "num"
            /\ r.d > 0
            /\ e > 0 => r.n * e = 100 * c * r.d
            /\ e <= 0 => r = Zero

\* C1's case: a snapshot with no enrollment is shown
C1_Witness == Shown /\ metrics.enrolledCoursesCount = 0 /\ view.completionRate = Zero

\* C2: for every enrollment set, completedCoursesCount <= enrolledCoursesCount and
\* completionRate lies in [0,100]; for the empty set both counts and the rate are 0.
C2_CountsAndRange ==
    Shown =>
        LET r == view.completionRate
        IN  /\ metrics.completedCoursesCount <= metrics.enrolledCoursesCount
            /\ r.kind = "num"
            /\ r.d > 0
            /\ 0 <= r.n
            /\ r.n <= 100 * r.d
            /\ enrollments = {} =>
                  /\ metrics.enrolledCoursesCount = 0
                  /\ metrics.completedCoursesCount = 0
                  /\ r = Zero

\* C2's case: every enrolled course is completed, the rate is at its upper end
C2_Witness ==
    /\ Shown
    /\ metrics.enrolledCoursesCount = MaxCourses
    /\ metrics.completedCoursesCount = MaxCourses
    /\ view.completionRate = [kind |-> "num", n |-> 100, d |-> 1]

StatFields == {"enrolledCoursesCount", "currentStreak", "completionRate",
               "weeklyProgress", "feed", "emptyMessage"}

\* C3: once loading has ended without a snapshot the dashboard shows the failure
\* and no statistic; a snapshot with zero counts and an empty feed is shown as a
\* normal result, with the empty-feed message.
C3_FailureIsNotZeros ==
    /\ (~isLoading /\ metrics = NoMetrics) =>
          /\ view.kind = "error"
          /\ DOMAIN view \cap StatFields = {}
    /\ (~isLoading /\ metrics # NoMetrics) =>
          /\ Shown
          /\ (metrics.enrolledCoursesCount = 0 /\ metrics.recentActivity = <<>>) =>
                /\ view.enrolledCoursesCount = 0
                /\ view.feed = <<>>
                /\ view.emptyMessage

\* C3's case: the fetch has failed
C3_Witness == ~isLoading /\ metrics = NoMetrics /\ view.kind = "error"

\* C4: every activity of the snapshot has its row in the feed; a type outside the
\* four known ones gets the fallback icon and the fallback colour, each known type
\* gets an icon and a colour that are not the fallback, and two different known
\* types never get the same pair.
C4_ActivityCategories ==
    Shown =>
        /\ Len(view.feed) = Len(metrics.recentActivity)
        /\ \A i \in 1..Len(metrics.recentActivity) :
              LET a == metrics.recentActivity[i]
                  row == view.feed[i]
              IN  /\ row.key = a.id
                  /\ a.type \notin KnownTypes =>
                        row.icon = FallbackIcon /\ row.color = FallbackColor
                  /\ a.type \in KnownTypes =>
                        row.icon # FallbackIcon /\ row.color # FallbackColor
        /\ \A i, j \in 1..Len(metrics.recentActivity) :
              LET a == metrics.recentActivity[i]
                  b == metrics.recentActivity[j]
              IN  (a.type \in KnownTypes /\ b.type \in KnownTypes /\ a.type # b.type)
                  => <<view.feed[i].icon, view.feed[i].color>>
                     # <<view.feed[j].icon, view.feed[j].color>>

\* C4's case: a feed holding an event of an unknown type beside a known one
C4_Witness ==
    /\ Shown
    /\ \E i, j \in 1..Len(view.feed) :
          /\ metrics.recentActivity[i].type = "quiz_passed"
          /\ view.feed[i].icon = FallbackIcon
          /\ metrics.recentActivity[j].type = "certificate_earned"

\* C5: for every snapshot shown, weeklyGoalProgress equals
\* weeklyStudiedHours / weeklyGoalHours * 100 when weeklyGoalHours > 0 and is 0
\* otherwise, a zero or negative goal included.
C5_WeeklyGoalProgress ==
    Shown =>
        LET p == view.weeklyProgress
            h == metrics.weeklyStudiedHours
            g == metrics.weeklyGoalHours
        IN  /\ g > 0 => (p.kind = "num" /\ p.d > 0 /\ p.n * g = 100 * h * p.d)
            /\ g <= 0 => p = Zero

\* C5's case: a negative goal with hours studied
C5_Witness ==
    Shown /\ metrics.weeklyGoalHours < 0 /\ metrics.weeklyStudiedHours > 0

\* C6: the snapshot's recentActivity is ordered by date descending, equal dates by
\* id descending, and the dashboard shows its rows in exactly that order.
C6_FeedOrder ==
    Shown =>
        /\ \A i, j \in 1..Len(metrics.recentActivity) :
              i < j => Newer(metrics.recentActivity[i], metrics.recentActivity[j])
        /\ Len(view.feed) = Len(metrics.recentActivity)
        /\ NewestFirst(view.feed)

\* C6's case: three rows, two of them of the same date
C6_Witness ==
    /\ Shown
    /\ Len(view.feed) = 3
    /\ EventOfRow(view.feed[1]).date = EventOfRow(view.feed[2]).date
    /\ EventOfRow(view.feed[2]).date > EventOfRow(view.feed[3]).date

\* C7: the feed has min(feedLimit, number of events) rows, each a different event,
\* newest first, and every event left out is older than every event shown; events
\* dated t3 > t1 > t2 with feedLimit = 2 give exactly [t3, t1].
C7_FeedTruncation ==
    Shown =>
        LET keys == {view.feed[i].key : i \in 1..Len(view.feed)}
        IN  /\ Len(view.feed) = Min(feedLimit, Cardinality(events))
            /\ Len(view.feed) <= feedLimit
            /\ Cardinality(keys) = Len(view.feed)
            /\ keys \subseteq {e.id : e \in events}
            /\ NewestFirst(view.feed)
            /\ \A e \in events : e.id \notin keys =>
                  \A i \in 1..Len(view.feed) : Newer(EventOfRow(view.feed[i]), e)
            /\ (/\ feedLimit = 2
                /\ {<<e.id, e.date>> : e \in events} = {<<1, 2>>, <<2, 1>>, <<3, 3>>})
               => <<view.feed[1].key, view.feed[2].key>> = <<3, 1>>

\* C7's case: t3 > t1 > t2 under feedLimit = 2
C7_Witness ==
    /\ Shown
    /\ feedLimit = 2
    /\ {<<e.id, e.date>> : e \in events} = {<<1, 2>>, <<2, 1>>, <<3, 3>>}
    /\ Len(view.feed) = 2

\* C8: the streak shown is the number of consecutive active days walking backward
\* from today, or from yesterday when today has no session, and 0 when neither is
\* active: {today, today-1, today-2} gives 3, {today-1, today-3} gives 1, no
\* session gives 0, and a session dated tomorrow does not stand for today.
C8_Streak ==
    Shown =>
        LET A == {s.day : s \in sessions}
            start == IF 0 \in A THEN 0 ELSE 1
            k == view.currentStreak
        IN  /\ k >= 0
            /\ \A d \in start..(start + k - 1) : d \in A
            /\ (start + k) \notin A
            /\ (0 \notin A /\ 1 \notin A) => k = 0
            /\ A = {0, 1, 2} => k = 3
            /\ A = {1, 3} => k = 1
            /\ A = {} => k = 0
            /\ A = {-1} => k = 0
            /\ A = {-1, 1} => k = 1

\* C8's case: sessions yesterday and three days ago, none today
C8_Witness ==
    /\ Shown
    /\ {s.day : s \in sessions} = {1, 3}
    /\ view.currentStreak = 1

----------------------------------------------------------------------------
(* Properties of the lesson dialog (checked under SpecModal)               *)

\* C9: a save that succeeds has called updateLesson exactly once; the call is
\* issued only after every selected file has been uploaded, and its materials are
\* the lesson's existing materials in their order (those whose remove button was
\* clicked included) followed by one entry per selected file in selection order.
C9_SaveMergesMaterials ==
    /\ outcome = "ok" => nCalls = 1
    /\ pc = "updating" => Len(updateCalls) = 1
    /\ updateCalls # <<>> =>
          LET call == updateCalls[1]
              old == IF closure.lesson.materials = <<>> THEN <<>>
                     ELSE closure.lesson.materials[1]
              files == closure.materialFiles
          IN  /\ pc = "updating"
              /\ Len(updateCalls) = 1
              /\ call.id = closure.lesson.id
              /\ call.uploadsDone = Len(files)
              /\ Len(uploads) = Len(files)
              /\ Len(call.materials) = Len(old) + Len(files)
              /\ \A i \in 1..Len(old) : call.materials[i] = old[i]
              /\ \A j \in 1..Len(files) :
                    LET m == call.materials[Len(old) + j]
                    IN  /\ uploads[j].file = files[j].file
                        /\ m.name = files[j].file.name
                        /\ m.type = files[j].file.type
                        /\ m.size = files[j].file.size
                        /\ m.url = uploads[j].path

\* C9's case: a save of two files has succeeded on the lesson with two existing
\* materials, after a remove button was clicked
C9_Witness ==
    /\ outcome = "ok"
    /\ nUploads = 2
    /\ nCalls = 1
    /\ removeClicks # {}
    /\ Len(existingMaterials(lesson)) = 2

\* C10: right after the lesson changes to one with another id the form holds the
\* new lesson's values and no file is selected; every selected file was picked for
\* the lesson now edited, and every upload goes to the lesson its file was picked
\* for.
C10_LessonChangeRehydrates ==
    /\ lessonChange # "none" =>
          /\ materialFiles = <<>>
          /\ form.title = lesson.title
          /\ form.description = (IF lesson.description = <<>> THEN "" ELSE lesson.description[1])
          /\ form.order_index = lesson.order_index
          /\ form.video_url = (IF lesson.video_url = <<>> THEN "" ELSE lesson.video_url[1])
          /\ form.video_type = (IF lesson.video_type = <<>> THEN "youtube" ELSE lesson.video_type[1])
          /\ form.duration_minutes = lesson.duration_minutes
    /\ \A i \in 1..Len(materialFiles) : materialFiles[i].pickedFor = lesson.id
    /\ \A i \in 1..Len(uploads) : uploads[i].pickedFor = uploads[i].path[1]

\* C10's case: the lesson has just changed while files were selected
C10_Witness == lessonChange = "dropped" /\ materialFiles = <<>>


SaveFailed == outcome \in {"uploadFailed", "updateFailed"}

\* C11: the step that ends a save in failure (a rejected upload or a rejected
\* updateLesson) leaves the dialog's open state and the selected files as they
\* were; a save ended by a rejected upload has issued no updateLesson call; and
\* whenever no save is running uploadingMaterials is false, so the submit button
\* is disabled only while a save runs.
C11_FailureKeepsDialog ==
    /\ [][(pc # "idle" /\ pc' = "idle" /\ outcome' # "ok")
            => /\ outcome' \in {"uploadFailed", "updateFailed"}
               /\ open' = open
               /\ materialFiles' = materialFiles
               /\ uploadingMaterials /\ ~uploadingMaterials']_vars
    /\ [](outcome = "uploadFailed" => nCalls = 0)
    /\ [](pc = "idle" => (~uploadingMaterials /\ ~submitDisabled))
    /\ [](pc # "idle" => uploadingMaterials)

\* C11's case: an upload of a save has failed; the dialog is open with its two
\* files still selected and the submit button enabled
C11_Witness ==
    /\ outcome = "uploadFailed"
    /\ pc = "idle"
    /\ nCalls = 0
    /\ open
    /\ Len(materialFiles) = 2
    /\ ~uploadingMaterials

====
